---- MODULE Spec2Model ----
(***************************************************************************)
(* A model of pyrodash: the geometry classes (Parallelepiped, Tetrahedra,  *)
(* Arrow, Spins, Monopole) and the UnitCell that assembles them.           *)
(*                                                                         *)
(* Every constructor is a pure computation; a constructor call is one      *)
(* action that records the arguments of the call and the object the call   *)
(* leaves behind: the attributes assigned before it returned or raised.    *)
(*                                                                         *)
(* Numbers.  The code works with floats built from integers, fractions and *)
(* sqrt(2) (sqrt(8), sqrt(0.5), sqrt(2)/4).  A number is modelled exactly  *)
(* as <<a, b, d>>, standing for (a + b*sqrt(2)) / d with d > 0 and         *)
(* gcd(a, b, d) = 1, so that two numbers are equal iff their triples are.  *)
(* Python index i of a sequence is index i + 1 here.                       *)
(***************************************************************************)
EXTENDS Integers, Sequences, FiniteSets, TLC

VARIABLES spin_values,  \* the caller's global spin array
          table,        \* the neighbor-table file for the lattice size of spin_values
          last          \* the most recent constructor call: [op, args, obj]

vars == <<spin_values, table, last>>

----------------------------------------------------------------------------
(* Bounds of the model *)

\* largest lattice size L of a global spin array (its length is 16*L^3)
MaxL == 2

----------------------------------------------------------------------------
(* Exact arithmetic in Q(sqrt 2) *)

Abs(n) == IF n < 0 THEN -n ELSE n

RECURSIVE GCD(_, _)
GCD(m, n) == IF n = 0 THEN m ELSE GCD(n, m % n)

Num(a, b, d) ==
    LET g == GCD(GCD(Abs(a), Abs(b)), Abs(d))
        s == IF d < 0 THEN -1 ELSE 1
    IN  <<(s * a) \div g, (s * b) \div g, (s * d) \div g>>

I(n) == <<n, 0, 1>>
Q(n, d) == Num(n, 0, d)

NAdd(x, y) == Num(x[1] * y[3] + y[1] * x[3], x[2] * y[3] + y[2] * x[3], x[3] * y[3])
NNeg(x) == <<-x[1], -x[2], x[3]>>
NSub(x, y) == NAdd(x, NNeg(y))
NMul(x, y) == Num(x[1] * y[1] + 2 * x[2] * y[2], x[1] * y[2] + x[2] * y[1], x[3] * y[3])
\* 1 / ((a + b r)/d) = d (a - b r) / (a^2 - 2 b^2), for a nonzero number
NInv(x) == Num(x[3] * x[1], -(x[3] * x[2]), x[1] * x[1] - 2 * x[2] * x[2])
NDiv(x, y) == NMul(x, NInv(y))

ISqrt(m) == CHOOSE r \in 0..m : r * r <= m /\ m < (r + 1) * (r + 1)

\* the square root of a rational n/d >= 0 whose root lies in Q(sqrt 2)
NSqrt(x) ==
    LET m == x[1] * x[3]
        r == ISqrt(m)
        h == ISqrt(m \div 2)
    IN  IF r * r = m THEN Num(r, 0, x[3]) ELSE Num(0, h, x[3])

\* x > 0, for x = (a + b*sqrt 2)/d
NPos(x) ==
    LET a == x[1]
        b == x[2]
    IN  \/ a > 0 /\ b >= 0
        \/ a >= 0 /\ b > 0
        \/ a > 0 /\ b < 0 /\ a * a > 2 * b * b
        \/ a < 0 /\ b > 0 /\ 2 * b * b > a * a

Zero == I(0)

\* vectors: sequences of numbers, componentwise
VAdd(u, v) == [c \in DOMAIN u |-> NAdd(u[c], v[c])]
VSub(u, v) == [c \in DOMAIN u |-> NSub(u[c], v[c])]
VScale(k, v) == [c \in DOMAIN v |-> NMul(k, v[c])]
VNeg(v) == [c \in DOMAIN v |-> NNeg(v[c])]
IVec(v) == [c \in DOMAIN v |-> I(v[c])]

----------------------------------------------------------------------------
(* Python sequence operations *)

Min(a, b) == IF a < b THEN a ELSE b
Max(a, b) == IF a > b THEN a ELSE b

\* seq[a:b] for 0 <= a: the entries at Python indices a .. b-1 that exist
PySlice(seq, a, b) ==
    LET lo == Min(a, Len(seq))
        hi == Min(Max(b, lo), Len(seq))
    IN  [n \in 1..(hi - lo) |-> seq[lo + n]]

RECURSIVE PySum(_)
PySum(seq) == IF seq = <<>> THEN 0 ELSE Head(seq) + PySum(Tail(seq))

\* seq[i] with Python's negative indices; the index must exist
PyAt(seq, i) == IF i < 0 THEN seq[Len(seq) + i + 1] ELSE seq[i + 1]
PyInRange(seq, i) == -Len(seq) <= i /\ i < Len(seq)

----------------------------------------------------------------------------
(* numpy arrays as constructor arguments: a 0-dimensional array (a scalar) *)
(* cannot be indexed, a 1-dimensional one can                              *)

ArgScalar(x) == [ndim |-> 0, v |-> <<x>>]
ArgVec(v) == [ndim |-> 1, v |-> v]
CanIndex(arr, i) == arr.ndim = 1 /\ i < Len(arr.v)

\* the exception of the first element of a list of objects that raised, "ok" if none
FirstStatus(objs) ==
    IF \A n \in DOMAIN objs : objs[n].status = "ok" THEN "ok"
    ELSE objs[CHOOSE n \in DOMAIN objs :
                 /\ objs[n].status # "ok"
                 /\ \A m \in 1..(n - 1) : objs[m].status = "ok"].status

----------------------------------------------------------------------------
(* Parallelepiped *)

\* a variant whose first face is walked across its diagonals
ParallelepipedFacesCrossed ==
    << <<2, 1, 0, 3>>, <<4, 6, 7, 5>>, <<6, 2, 3, 7>>,
       <<0, 4, 5, 1>>, <<0, 4, 6, 2>>, <<1, 5, 7, 3>> >>

\* the six ways of grabbing four of the eight vertices
ParallelepipedFaces ==
    << <<2, 0, 1, 3>>, <<4, 6, 7, 5>>, <<6, 2, 3, 7>>,
       <<0, 4, 5, 1>>, <<0, 4, 6, 2>>, <<1, 5, 7, 3>> >>

\* a variant in which the first factor runs fastest
ProductFirstFastest(L) ==
    [n \in 1..8 |->
        << IF (n - 1) % 2 = 1 THEN L[1] ELSE Zero,
           IF ((n - 1) \div 2) % 2 = 1 THEN L[2] ELSE Zero,
           IF ((n - 1) \div 4) % 2 = 1 THEN L[3] ELSE Zero >>]

\* itertools.product([0, L0], [0, L1], [0, L2]): the last factor runs fastest
Product(L) ==
    [n \in 1..8 |->
        << IF ((n - 1) \div 4) % 2 = 1 THEN L[1] ELSE Zero,
           IF ((n - 1) \div 2) % 2 = 1 THEN L[2] ELSE Zero,
           IF (n - 1) % 2 = 1 THEN L[3] ELSE Zero >>]

face_vertices_calculation(vertices) ==
    [k \in 1..6 |-> [m \in 1..4 |-> vertices[ParallelepipedFaces[k][m] + 1]]]

\* a variant whose fills take the axes 0, 1, 2 in turn
draw_faces_axes_in_turn(face_vertices) ==
    [p \in 1..12 |->
        LET i == (p - 1) \div 2
        IN  IF (p - 1) % 2 = 0
            THEN [role |-> "outline", vert |-> face_vertices[i + 1], surfaceaxis |-> -1]
            ELSE [role |-> "fill", vert |-> face_vertices[i + 1], surfaceaxis |-> i % 3]]

\* two scatters per face: the outline, then the fill with surfaceaxis = i // 2
draw_faces(face_vertices) ==
    [p \in 1..12 |->
        LET i == (p - 1) \div 2
        IN  IF (p - 1) % 2 = 0
            THEN [role |-> "outline", vert |-> face_vertices[i + 1], surfaceaxis |-> -1]
            ELSE [role |-> "fill", vert |-> face_vertices[i + 1], surfaceaxis |-> i \div 2]]

Parallelepiped(L, initial_vertex_position) ==
    LET self == [status |-> "ok", attrs |-> {"L", "initial_vertex_position"},
                 L |-> L, initial_vertex_position |-> initial_vertex_position,
                 vertices |-> <<>>, face_vertices |-> <<>>, faces |-> <<>>]
    IN  IF ~(CanIndex(L, 0) /\ CanIndex(L, 1) /\ CanIndex(L, 2))
        THEN [self EXCEPT !.status = "IndexError"]
        ELSE LET vertices == [n \in 1..8 |->
                                 VAdd(initial_vertex_position, Product(L.v)[n])]
                 fv == face_vertices_calculation(vertices)
             IN  [self EXCEPT !.attrs = @ \cup {"vertices", "face_vertices", "faces"},
                              !.vertices = vertices,
                              !.face_vertices = fv,
                              !.faces = draw_faces(fv)]

----------------------------------------------------------------------------
(* Tetrahedra *)

TetraPattern == << <<1, 1, 1>>, <<1, -1, -1>>, <<-1, -1, 1>>, <<-1, 1, -1>> >>

\* a variant that reflects the up vertices through the center
vertices_reflected_in_center(center_up, L) ==
    LET up_vertices == [n \in 1..4 |->
                           VAdd(center_up, VScale(NDiv(L, I(2)), IVec(TetraPattern[n])))]
        down_vertices == [n \in 1..4 |->
                             VAdd(VNeg(up_vertices[n]), VScale(I(2), center_up))]
    IN  <<up_vertices, down_vertices>>

\* a variant that reflects the up vertices through the second of them
vertices_reflected_in_second(center_up, L) ==
    LET up_vertices == [n \in 1..4 |->
                           VAdd(center_up, VScale(NDiv(L, I(2)), IVec(TetraPattern[n])))]
        down_vertices == [n \in 1..4 |->
                             VAdd(VNeg(up_vertices[n]), VScale(I(2), up_vertices[2]))]
    IN  <<up_vertices, down_vertices>>

vertices_calculation(center_up, L) ==
    LET up_vertices == [n \in 1..4 |->
                           VAdd(center_up, VScale(NDiv(L, I(2)), IVec(TetraPattern[n])))]
        down_vertices == [n \in 1..4 |->
                             VAdd(VNeg(up_vertices[n]), VScale(I(2), up_vertices[1]))]
    IN  <<up_vertices, down_vertices>>

\* the hover labels of the four up sites
sites(initial_spin) == [n \in 1..4 |-> initial_spin + (n - 1)]

Tetrahedra(center_up, L, init_count) ==
    LET uv == vertices_calculation(center_up, L)
    IN  [status |-> "ok", center_up |-> center_up, L |-> L,
         up_vertices |-> uv[1], down_vertices |-> uv[2],
         site_numbers |-> sites(init_count)]

----------------------------------------------------------------------------
(* Monopole: a Sphere whose radius and color are selected by the charge.    *)
(* A charge that matches no branch leaves the Sphere constructor uncalled:  *)
(* no exception, and only the charge attribute is set.                      *)

Sphere(self, center, radius, surface_color) ==
    [self EXCEPT !.attrs = @ \cup {"center", "radius", "surface"},
                 !.center = center, !.radius = radius, !.color = surface_color]

MonopoleSignBlind(charge, center) ==
    LET self == [status |-> "ok", attrs |-> {"charge"}, charge |-> charge,
                 center |-> <<>>, radius |-> <<>>, color |-> ""]
    IN  IF charge = 0 THEN Sphere(self, center, I(0), "k")
        ELSE IF Abs(charge) = 2 THEN Sphere(self, center, Q(16, 100), "#02590f")
        ELSE IF Abs(charge) = 4 THEN Sphere(self, center, Q(24, 100), "#01ff07")
        ELSE self

Monopole(charge, center) ==
    LET self == [status |-> "ok", attrs |-> {"charge"}, charge |-> charge,
                 center |-> <<>>, radius |-> <<>>, color |-> ""]
    IN  IF charge = 0 THEN Sphere(self, center, I(0), "k")
        ELSE IF charge = 2 THEN Sphere(self, center, Q(16, 100), "#02590f")
        ELSE IF charge = -2 THEN Sphere(self, center, Q(16, 100), "#be0119")
        ELSE IF charge = 4 THEN Sphere(self, center, Q(24, 100), "#01ff07")
        ELSE IF charge = -4 THEN Sphere(self, center, Q(24, 100), "r")
        ELSE self

----------------------------------------------------------------------------
(* Linear algebra: the norm, the cross product, and a pair of unit vectors  *)
(* perpendicular to a given one.  0/0 is nan, written <<0, 0, 0>>.          *)

NaN == <<0, 0, 0>>
NaNVec == <<NaN, NaN, NaN>>

Dot(u, v) == NAdd(NAdd(NMul(u[1], v[1]), NMul(u[2], v[2])), NMul(u[3], v[3]))
Norm(v) == NSqrt(Dot(v, v))
Normalize(v) == VScale(NInv(Norm(v)), v)

Cross(u, v) ==
    << NSub(NMul(u[2], v[3]), NMul(u[3], v[2])),
       NSub(NMul(u[3], v[1]), NMul(u[1], v[3])),
       NSub(NMul(u[1], v[2]), NMul(u[2], v[1])) >>

\* [1, 0, 0], or [0, 1, 0] if the vector is [1, 0, 0] itself
NotVector(vector) ==
    IF vector = IVec(<<1, 0, 0>>) THEN IVec(<<0, 1, 0>>) ELSE IVec(<<1, 0, 0>>)

perpendicular_plane_vectors(vector) ==
    LET c == Cross(vector, NotVector(vector))
        n1 == IF Norm(c) = Zero THEN NaNVec ELSE VScale(NInv(Norm(c)), c)
        n2 == IF n1 = NaNVec THEN NaNVec ELSE Cross(vector, n1)
    IN  <<n1, n2>>

----------------------------------------------------------------------------
(* Cylinder, Cone, Circle: the points that place them (the meshes drawn     *)
(* around these points from n1 and n2 are not modelled)                     *)

\* a variant that takes the given point for the center of the base
CylinderFromBase(center, radius, length, axis, n1, n2) ==
    LET a == Normalize(axis)
    IN  [center |-> center, radius |-> radius, length |-> length, axis |-> a,
         base_center |-> center,
         top_center |-> VAdd(center, VScale(length, a)),
         n1 |-> n1, n2 |-> n2]

Cylinder(center, radius, length, axis, n1, n2) ==
    LET a == Normalize(axis)
    IN  [center |-> center, radius |-> radius, length |-> length, axis |-> a,
         base_center |-> VSub(center, VScale(NDiv(length, I(2)), a)),
         top_center |-> VAdd(center, VScale(NDiv(length, I(2)), a)),
         n1 |-> n1, n2 |-> n2]

\* a variant whose tip is half the length away from the base
ConeHalfHigh(base_center, base_radius, length, axis, n1, n2) ==
    LET a == Normalize(axis)
    IN  [base_center |-> base_center, base_radius |-> base_radius, length |-> length,
         axis |-> a, tip |-> VAdd(base_center, VScale(NDiv(length, I(2)), a)),
         n1 |-> n1, n2 |-> n2]

Cone(base_center, base_radius, length, axis, n1, n2) ==
    LET a == Normalize(axis)
    IN  [base_center |-> base_center, base_radius |-> base_radius, length |-> length,
         axis |-> a, tip |-> VAdd(base_center, VScale(length, a)),
         n1 |-> n1, n2 |-> n2]

\* a variant that draws every circle around the origin
CircleAtOrigin(center, radius, axis, n1, n2) ==
    [center |-> <<Zero, Zero, Zero>>, radius |-> radius, axis |-> Normalize(axis),
     n1 |-> n1, n2 |-> n2]

Circle(center, radius, axis, n1, n2) ==
    [center |-> center, radius |-> radius, axis |-> Normalize(axis), n1 |-> n1, n2 |-> n2]

----------------------------------------------------------------------------
(* Arrow: a Cylinder, a Cone and the two Circles that close them *)

\* the defaults of the optional arguments of Arrow
DefaultConeLengthRatio == Q(4, 10)
DefaultConeCylinderRadiusRatio == Q(18, 10)
DefaultPivot == "mid"

ValidPivotAny(pivot) == pivot # ""

\* pivot in {"tail", "mid", "tip"}
ValidPivot(pivot) == pivot \in {"tail", "mid", "tip"}

CylinderCenterWholeShaft(pivot, pos, cylinder_length, cone_length, axis) ==
    IF pivot = "tail" THEN VAdd(pos, VScale(NMul(Q(1, 2), cylinder_length), axis))
    ELSE IF pivot = "mid" THEN VSub(pos, VScale(NMul(Q(1, 2), cone_length), axis))
    ELSE VSub(pos, VScale(NAdd(cone_length, cylinder_length), axis))

\* the center of the shaft for a valid pivot
CylinderCenter(pivot, pos, cylinder_length, cone_length, axis) ==
    IF pivot = "tail" THEN VAdd(pos, VScale(NMul(Q(1, 2), cylinder_length), axis))
    ELSE IF pivot = "mid" THEN VSub(pos, VScale(NMul(Q(1, 2), cone_length), axis))
    ELSE VSub(pos, VScale(NAdd(cone_length, NMul(Q(1, 2), cylinder_length)), axis))

Arrow(pos, radius, length, axis, cone_length_ratio, cone_cylinder_radius_ratio, pivot) ==
    LET a == Normalize(axis)
        self == [status |-> "ok", attrs |-> {"pos", "radius", "length", "axis"},
                 pos |-> pos, radius |-> radius, length |-> length, axis |-> a,
                 pivot |-> "", cylinder |-> <<>>, base_cylinder |-> <<>>,
                 cone |-> <<>>, base_cone |-> <<>>]
        cylinder_radius == radius
        cylinder_length == NMul(NSub(I(1), cone_length_ratio), length)
        cone_base_radius == NMul(cone_cylinder_radius_ratio, cylinder_radius)
        cone_length == NMul(cone_length_ratio, length)
    IN  IF ~ValidPivot(pivot) THEN [self EXCEPT !.status = "ValueError"]
        ELSE IF pivot \notin {"tail", "mid", "tip"}
        THEN \* no branch assigns cylinder_center
             [self EXCEPT !.status = "UnboundLocalError",
                          !.attrs = @ \cup {"pivot"}, !.pivot = pivot]
        ELSE LET cylinder_center ==
                     CylinderCenter(pivot, pos, cylinder_length, cone_length, a)
                 n == perpendicular_plane_vectors(a)
                 cylinder == Cylinder(cylinder_center, cylinder_radius, cylinder_length,
                                      a, n[1], n[2])
                 base_cylinder == Circle(cylinder.base_center, cylinder_radius,
                                         a, n[1], n[2])
                 cone == Cone(cylinder.top_center, cone_base_radius, cone_length,
                              a, n[1], n[2])
                 base_cone == Circle(cone.base_center, cone_base_radius, a, n[1], n[2])
             IN  [self EXCEPT
                    !.attrs = @ \cup {"pivot", "cylinder", "base_cylinder", "cone",
                                      "base_cone", "surface"},
                    !.pivot = pivot, !.cylinder = cylinder,
                    !.base_cylinder = base_cylinder, !.cone = cone,
                    !.base_cone = base_cone]

----------------------------------------------------------------------------
(* Spins: the four arrows of an up tetrahedron *)

\* the base axes; the code divides all of them by sqrt(3), a common positive
\* factor that is left out here: an axis is given in units of 1/sqrt(3)
base_spin_axes == << <<1, 1, 1>>, <<1, -1, -1>>, <<-1, -1, 1>>, <<-1, 1, -1>> >>

ValidSpinLoose(s) == -1 <= s /\ s <= 1

\* s == 1 or s == -1
ValidSpin(s) == s = 1 \/ s = -1

\* a variant that ignores the spins
SpinAxesUnsigned(s1234) == [n \in 1..4 |-> [c \in 1..3 |-> base_spin_axes[n][c]]]

\* np.diag(s1234) @ base_spin_axes: row n of the base axes times spin n
SpinAxes(s1234) == [n \in 1..4 |-> [c \in 1..3 |-> s1234[n] * base_spin_axes[n][c]]]

\* a variant that colors the four arrows by the first spin
SpinColorsByFirst(s1234) == [n \in 1..4 |-> IF s1234[1] = 1 THEN "blue" ELSE "black"]

SpinColors(s1234) == [n \in 1..4 |-> IF s1234[n] = 1 THEN "blue" ELSE "black"]

\* Arrow(pos, 0.036, 0.6, axis, surface_color=color), pivot left at its default
SpinArrow(pos, axis, color) ==
    [pos |-> pos, radius |-> Q(36, 1000), length |-> Q(6, 10), axis |-> axis,
     pivot |-> DefaultPivot, surface_color |-> color]

Spins(positions, s1234) ==
    LET self == [status |-> "ok", attrs |-> {"positions"}, positions |-> positions,
                 s1234 |-> <<>>, axes |-> <<>>, colors |-> <<>>, arrows |-> <<>>]
    IN  IF ~(\A n \in DOMAIN s1234 : ValidSpin(s1234[n]))
        THEN [self EXCEPT !.status = "ValueError"]
        ELSE IF Len(s1234) # 4
        THEN \* the 4x3 matrix product does not fit
             [self EXCEPT !.status = "ValueError", !.attrs = @ \cup {"s1234"},
                          !.s1234 = s1234]
        ELSE LET axes == SpinAxes(s1234)
                 colors == SpinColors(s1234)
                 k == Min(4, Len(positions))
             IN  [self EXCEPT
                    !.attrs = @ \cup {"s1234", "axes", "colors", "arrows", "surfaces"},
                    !.s1234 = s1234, !.axes = axes, !.colors = colors,
                    !.arrows = [n \in 1..k |-> SpinArrow(positions[n], axes[n], colors[n])]]

----------------------------------------------------------------------------
(* UnitCell *)

\* round(x ** (1/3)) for x = n/16: the integer nearest to the cube root, a tie
\* going to the even one.  m is nearest iff (2m-1)^3 <= 8x <= (2m+1)^3.
Cube(m) == m * m * m

LatticeSize(n) ==
    LET m == CHOOSE m \in 0..(n + 1) : 2 * Cube(2 * m - 1) <= n /\ n < 2 * Cube(2 * m + 1)
    IN  IF n = 2 * Cube(2 * m - 1) /\ m % 2 = 1 THEN m - 1 ELSE m

InitialSpinNoSquare(ijk, L) == (ijk[1] + ijk[2] * L + ijk[3] * L) * 16

\* a variant in which a cell starts 8 entries after the one before it
InitialSpinOverlapping(ijk, L) == (ijk[1] + ijk[2] * L + ijk[3] * L * L) * 8

\* (ijk[0] + ijk[1] * _L + ijk[2] * _L * _L) * 16
InitialSpin(ijk, L) == (ijk[1] + ijk[2] * L + ijk[3] * L * L) * 16

\* the fractional positions of the four up tetrahedra in a cell
CenterPattern == << <<0, 0, 0>>, <<1, 1, 0>>, <<0, 1, 1>>, <<1, 0, 1>> >>

\* (0.5 * pattern + ijk) / (sqrt(2) / 4)
UpCenters(ijk) ==
    [t \in 1..4 |-> [c \in 1..3 |->
        NDiv(NAdd(NMul(Q(1, 2), I(CenterPattern[t][c])), I(ijk[c])),
             NDiv(NSqrt(I(2)), I(4)))]]

\* up_centers + [1, 1, 1] / sqrt(2)
DownCenters(up_centers) ==
    [t \in 1..4 |-> [c \in 1..3 |-> NAdd(up_centers[t][c], NDiv(I(1), NSqrt(I(2))))]]

\* -int(sum(self.spin_values[i : i + 4])) for the t-th up tetrahedron, i = 4 (t - 1)
UpCharge(cell_spins, t) == -PySum(PySlice(cell_spins, 4 * (t - 1), 4 * (t - 1) + 4))

\* the neighbor table as read from the file: status "ok" with rows (a function
\* from the keys of the first column to the other columns), or the read failed
TableRead(tbl) ==
    IF tbl.status = "missing" THEN "FileNotFoundError"
    ELSE IF tbl.status = "malformed" THEN "ValueError"
    ELSE "ok"

\* np.insert(_down_neighbors.loc[i].values, 0, i)
SpinesDown(tbl, i) == <<i>> \o tbl.rows[i]

\* the t-th down monopole, i = 4 (t - 1): the row of key i, then the sum of the
\* global array at i and at the indices of the row
DownMonopole(tbl, global_spins, t, center) ==
    LET i == 4 * (t - 1)
    IN  IF i \notin DOMAIN tbl.rows THEN [status |-> "KeyError"]
        ELSE LET idx == SpinesDown(tbl, i)
             IN  IF \E n \in DOMAIN idx : ~PyInRange(global_spins, idx[n])
                 THEN [status |-> "IndexError"]
                 ELSE Monopole(PySum([n \in DOMAIN idx |-> PyAt(global_spins, idx[n])]),
                               center)

\* the down monopoles appended before the loop raised (all four if it did not)
DownMonopoles(tbl, global_spins, down_centers) ==
    LET all == [t \in 1..4 |-> DownMonopole(tbl, global_spins, t, down_centers[t])]
        good == {k \in 0..4 : \A t \in 1..k : all[t].status = "ok"}
        k == CHOOSE k \in good : \A j \in good : j <= k
    IN  [status |-> FirstStatus(all), list |-> [t \in 1..k |-> all[t]]]

\* a variant that survives every failure and gives the down monopoles the
\* charge 0 when no table could be used
UnitCellWithDefaults(ijk, global_spins, tbl) ==
    LET up_centers == UpCenters(ijk)
        down_centers == DownCenters(up_centers)
        L == LatticeSize(Len(global_spins))
        initial_spin == InitialSpin(ijk, L)
    IN  [status |-> "ok",
         attrs |-> {"ijk", "up_centers", "down_centers", "initial_spin", "spin_values",
                    "monopoles_down"},
         ijk |-> ijk, up_centers |-> up_centers, down_centers |-> down_centers,
         initial_spin |-> initial_spin,
         spin_values |-> PySlice(global_spins, initial_spin, initial_spin + 16),
         cube |-> <<>>, tetrahedra |-> <<>>, up_cubes |-> <<>>, down_cubes |-> <<>>,
         spins |-> <<>>, monopoles_up |-> <<>>,
         monopoles_down |-> [t \in 1..4 |-> Monopole(0, down_centers[t])],
         table_file |-> ""]

\* The fields of the result are the attributes of the object, and table_file:
\* the name of the neighbor-table file the constructor opened, "" if none.
UnitCell(ijk, global_spins, tbl) ==
    LET up_centers == UpCenters(ijk)
        down_centers == DownCenters(up_centers)
        L == LatticeSize(Len(global_spins))
        initial_spin == InitialSpin(ijk, L)
        cell_spins == PySlice(global_spins, initial_spin, initial_spin + 16)
        s0 == [status |-> "ok",
               attrs |-> {"ijk", "up_centers", "down_centers", "initial_spin", "spin_values"},
               ijk |-> ijk, up_centers |-> up_centers, down_centers |-> down_centers,
               initial_spin |-> initial_spin, spin_values |-> cell_spins,
               cube |-> <<>>, tetrahedra |-> <<>>, up_cubes |-> <<>>, down_cubes |-> <<>>,
               spins |-> <<>>, monopoles_up |-> <<>>, monopoles_down |-> <<>>,
               table_file |-> ""]
        \* down_neighbors / f"L{_L}.dat"
        data_file == "L" \o ToString(L) \o ".dat"
        \* Parallelepiped(np.sqrt(8), self.ijk * np.sqrt(8)): the side is a scalar
        cube == Parallelepiped(ArgScalar(NSqrt(I(8))), VScale(NSqrt(I(8)), IVec(ijk)))
        tetrahedra == [t \in 1..4 |-> Tetrahedra(up_centers[t], Q(1, 4), 1 + 4 * (t - 1))]
        half == NSqrt(Q(1, 2))
        up_cubes == [t \in 1..4 |->
            Parallelepiped(ArgScalar(half),
                           VSub(tetrahedra[t].up_vertices[1], <<half, half, half>>))]
        down_cubes == [t \in 1..4 |->
            Parallelepiped(ArgScalar(half), tetrahedra[t].up_vertices[1])]
        spins == [t \in 1..4 |->
            Spins(tetrahedra[t].up_vertices,
                  PySlice(cell_spins, 4 * (t - 1), 4 * (t - 1) + 4))]
        monopoles_up == [t \in 1..4 |-> Monopole(UpCharge(cell_spins, t), up_centers[t])]
        down == DownMonopoles(tbl, global_spins, down_centers)
    IN  IF cube.status # "ok" THEN [s0 EXCEPT !.status = cube.status]
        ELSE LET s1 == [s0 EXCEPT !.attrs = @ \cup {"cube", "tetrahedra"},
                                  !.cube = cube, !.tetrahedra = tetrahedra]
        IN  IF FirstStatus(up_cubes) # "ok"
            THEN [s1 EXCEPT !.status = FirstStatus(up_cubes)]
        ELSE IF FirstStatus(down_cubes) # "ok"
            THEN [s1 EXCEPT !.status = FirstStatus(down_cubes),
                            !.attrs = @ \cup {"up_cubes"}, !.up_cubes = up_cubes]
        ELSE LET s2 == [s1 EXCEPT !.attrs = @ \cup {"up_cubes", "down_cubes"},
                                  !.up_cubes = up_cubes, !.down_cubes = down_cubes]
        IN  IF FirstStatus(spins) # "ok"
            THEN [s2 EXCEPT !.status = FirstStatus(spins)]
        ELSE LET s3 == [s2 EXCEPT !.attrs = @ \cup {"spins", "monopoles_up"},
                                  !.spins = spins, !.monopoles_up = monopoles_up]
        IN  IF TableRead(tbl) # "ok"
            THEN [s3 EXCEPT !.status = TableRead(tbl), !.table_file = data_file]
        ELSE [s3 EXCEPT !.status = down.status,
                        !.attrs = @ \cup {"monopoles_down"},
                        !.monopoles_down = down.list,
                        !.table_file = data_file]

----------------------------------------------------------------------------
(* The inputs of a UnitCell: global spin arrays and neighbor tables *)

RECURSIVE Pow2(_)
Pow2(k) == IF k = 0 THEN 1 ELSE 2 * Pow2(k - 1)

\* the 16 ways of filling a tetrahedron with spins +1 / -1
TetraSpins == [1..4 -> {1, -1}]

\* a global array of n spins that repeats one tetrahedron
Tiled(p, n) == [m \in 1..n |-> p[((m - 1) % 4) + 1]]

\* a global array whose 16-blocks all differ: block c spells c + 1 in binary
Coded(n) ==
    [m \in 1..n |->
        IF (((((m - 1) \div 16) + 1) \div Pow2((m - 1) % 8)) % 2) = 1 THEN 1 ELSE -1]

\* the Python indices at which an array is given a value that is no spin
OddSites(n) == {m \in {0, 5, 15, 16, 37, n - 1} : m < n}
NoSpin == {0, 3}

SpinArrays(L) ==
    LET n == 16 * Cube(L)
    IN  {Tiled(p, n) : p \in TetraSpins} \cup {Coded(n)}
        \cup {[Tiled(<<1, -1, 1, -1>>, n) EXCEPT ![m + 1] = v] :
                 m \in OddSites(n), v \in NoSpin}

\* the three neighbors of the down site s as offsets from s in the global array
NeighborOffsets == {<<5, 10, 15>>, <<17, 34, 51>>}

DownKeys == {0, 4, 8, 12}

NeighborTables(L) ==
    LET n == 16 * Cube(L)
        Rows(o, keys) == [s \in keys |-> [c \in 1..3 |-> (s + o[c]) % n]]
    IN  {[status |-> "ok", rows |-> Rows(o, DownKeys)] : o \in NeighborOffsets}
        \cup {[status |-> "ok", rows |-> Rows(<<5, 10, 15>>, {0, 4, 8})],
              [status |-> "missing", rows |-> <<>>],
              [status |-> "malformed", rows |-> <<>>]}

NoCall == [op |-> "none", args |-> <<>>, obj |-> <<>>]

----------------------------------------------------------------------------
(* The specification of UnitCell and Spins calls.  A behaviour is one       *)
(* evaluation, as in a dashboard callback: the inputs, then one constructor *)
(* call on them (a constructor reads nothing that an earlier call wrote).   *)

Init ==
    /\ \E L \in 1..MaxL :
          /\ spin_values \in SpinArrays(L)
          /\ table \in NeighborTables(L)
    /\ last = NoCall

\* cell = UnitCell(ijk, spin_values), for a cell of the lattice
NewUnitCell ==
    \E i, j, k \in 0..(LatticeSize(Len(spin_values)) - 1) :
        /\ last = NoCall
        /\ last' = [op |-> "UnitCell", args |-> [ijk |-> <<i, j, k>>],
                    obj |-> UnitCell(<<i, j, k>>, spin_values, table)]
        /\ UNCHANGED <<spin_values, table>>

\* Spins(t.up_vertices, s1234) for four consecutive values of the array
NewSpins ==
    \E m \in {m \in 0..(Len(spin_values) - 4) : m % 4 = 0} :
        LET positions == Tetrahedra(<<Zero, Zero, Zero>>, Q(1, 4), 1).up_vertices
            s1234 == PySlice(spin_values, m, m + 4)
        IN  /\ last = NoCall
            /\ last' = [op |-> "Spins", args |-> [positions |-> positions, s1234 |-> s1234],
                        obj |-> Spins(positions, s1234)]
            /\ UNCHANGED <<spin_values, table>>

Next == NewUnitCell \/ NewSpins

Spec == Init /\ [][Next]_vars

----------------------------------------------------------------------------
(* Claims about UnitCell and Spins, checked under Spec *)

IsCell == last.op = "UnitCell"

\* the lattice size L of a global array of 16 * L^3 spins
LatticeOf(n) == CHOOSE L \in 1..n : 16 * L * L * L = n

\* the Python index of the first spin of the cell at ijk
FirstSpinOf(ijk, n) ==
    (ijk[1] + ijk[2] * LatticeOf(n) + ijk[3] * LatticeOf(n) * LatticeOf(n)) * 16

\* the spins of the cell at ijk, read off the global array
OwnSpin(n) == spin_values[FirstSpinOf(last.args.ijk, Len(spin_values)) + n + 1]

Charges == {-4, -2, 0, 2, 4}

\* C1: a UnitCell call at (i,j,k) on an array of 16*L^3 spins sets initial_spin
\* to (i + j*L + k*L*L)*16 and spin_values to the 16 entries of the array at
\* initial_spin .. initial_spin + 15, in order.
C1_CellSlice ==
    IsCell =>
        /\ {"initial_spin", "spin_values"} \subseteq last.obj.attrs
        /\ last.obj.initial_spin = FirstSpinOf(last.args.ijk, Len(spin_values))
        /\ Len(last.obj.spin_values) = 16
        /\ \A n \in 0..15 : last.obj.spin_values[n + 1] = OwnSpin(n)

C1_Witness ==
    /\ IsCell
    /\ Len(spin_values) = 128
    /\ last.args.ijk = <<1, 0, 1>>
    /\ last.obj.initial_spin = 80
    /\ last.obj.spin_values # PySlice(spin_values, 0, 16)

\* C2: after a UnitCell call on a cell of valid spins, the t-th up monopole
\* exists and its charge is minus the sum of the cell's spins 4t .. 4t+3, a
\* value in {-4,-2,0,2,4} (all +1 gives -4, [1,-1,1,-1] gives 0).
C2_UpCharges ==
    (IsCell /\ \A n \in 0..15 : ValidSpin(OwnSpin(n))) =>
        /\ "monopoles_up" \in last.obj.attrs
        /\ Len(last.obj.monopoles_up) = 4
        /\ \A t \in 0..3 :
              /\ last.obj.monopoles_up[t + 1].charge =
                    -(OwnSpin(4 * t) + OwnSpin(4 * t + 1)
                      + OwnSpin(4 * t + 2) + OwnSpin(4 * t + 3))
              /\ last.obj.monopoles_up[t + 1].charge \in Charges

\* the neighbor table was read and has a row for each of the keys 0, 4, 8, 12
TableComplete == table.status = "ok" /\ DOMAIN table.rows = DownKeys

\* C3: after a UnitCell call with valid spins and a complete table, the t-th
\* down monopole exists and its charge is the sum, in the global array, of the
\* spin at s = 4t and of the spins at the indices of the table row keyed s.
C3_DownCharges ==
    (IsCell /\ TableComplete /\ \A n \in DOMAIN spin_values : ValidSpin(spin_values[n])) =>
        /\ "monopoles_down" \in last.obj.attrs
        /\ Len(last.obj.monopoles_down) = 4
        /\ \A t \in 0..3 :
              last.obj.monopoles_down[t + 1].charge =
                  spin_values[4 * t + 1]
                  + spin_values[table.rows[4 * t][1] + 1]
                  + spin_values[table.rows[4 * t][2] + 1]
                  + spin_values[table.rows[4 * t][3] + 1]

\* C4: a Spins call with a value that is neither +1 nor -1 raises ValueError
\* and leaves no spin values, axes, colors or arrows; a UnitCell call whose 16
\* own spins hold such a value fails with no spins and no monopoles built.
C4_InvalidSpinFails ==
    /\ (last.op = "Spins"
        /\ \E n \in DOMAIN last.args.s1234 : last.args.s1234[n] \notin {1, -1}) =>
          /\ last.obj.status = "ValueError"
          /\ last.obj.attrs \cap {"s1234", "axes", "colors", "arrows", "surfaces"} = {}
          /\ last.obj.arrows = <<>>
    /\ (IsCell /\ \E n \in 0..15 : OwnSpin(n) \notin {1, -1}) =>
          /\ last.obj.status # "ok"
          /\ last.obj.attrs \cap {"spins", "monopoles_up", "monopoles_down"} = {}
          /\ last.obj.spins = <<>>
          /\ last.obj.monopoles_up = <<>>

C4_Witness ==
    /\ last.op = "Spins"
    /\ last.args.s1234 = <<0, -1, 1, -1>>
    /\ last.obj.status = "ValueError"

\* the 8 corners of the cube of side sqrt(8) rooted at the origin
OriginCubeCorners ==
    {<<x, y, z>> : x \in {Zero, <<0, 2, 1>>}, y \in {Zero, <<0, 2, 1>>},
                   z \in {Zero, <<0, 2, 1>>}}

\* C8: UnitCell([0,0,0], [1,-1,1,-1]*4) with the table of L = 1 is constructed,
\* has 4 tetrahedron pairs, 4 up charges equal to 0 and a cube whose 8 vertices
\* are the corners of the cube of side sqrt(8) rooted at the origin.
C8_EndToEnd ==
    (/\ IsCell
     /\ TableComplete
     /\ last.args.ijk = <<0, 0, 0>>
     /\ spin_values = Tiled(<<1, -1, 1, -1>>, 16)) =>
        /\ last.obj.status = "ok"
        /\ Len(last.obj.tetrahedra) = 4
        /\ Len(last.obj.monopoles_up) = 4
        /\ \A t \in 1..4 : last.obj.monopoles_up[t].charge = 0
        /\ Len(last.obj.cube.vertices) = 8
        /\ {last.obj.cube.vertices[n] : n \in 1..8} = OriginCubeCorners

----------------------------------------------------------------------------
(* The specification of Monopole calls *)

\* the charges offered to Monopole are -MaxCharge .. MaxCharge
MaxCharge == 6

\* points with small integer coordinates
Points == {IVec(<<x, y, z>>) : x, y, z \in -1..1}

NoTable == [status |-> "missing", rows |-> <<>>]

InitIdle ==
    /\ spin_values = <<>>
    /\ table = NoTable
    /\ last = NoCall

NewMonopole ==
    \E charge \in -MaxCharge..MaxCharge, center \in Points :
        /\ last = NoCall
        /\ last' = [op |-> "Monopole", args |-> [charge |-> charge, center |-> center],
                    obj |-> Monopole(charge, center)]
        /\ UNCHANGED <<spin_values, table>>

SpecMonopole == InitIdle /\ [][NewMonopole]_vars

\* C5: a Monopole call with a charge outside {0, 2, -2, 4, -4} fails with an
\* invalid-argument error.
C5_BadChargeFails ==
    (last.op = "Monopole" /\ last.args.charge \notin Charges) =>
        last.obj.status = "ValueError"

ExpectedRadius(magnitude) ==
    IF magnitude = 0 THEN I(0) ELSE IF magnitude = 2 THEN Q(4, 25) ELSE Q(6, 25)

ExpectedColor(charge) ==
    CASE charge = 0 -> "k"
      [] charge = 2 -> "#02590f"
      [] charge = -2 -> "#be0119"
      [] charge = 4 -> "#01ff07"
      [] charge = -4 -> "r"

\* C7: a Monopole call with a charge in {0, 2, -2, 4, -4} gives the sphere the
\* radius of the charge's magnitude (0, 0.16, 0.24), the color of the charge
\* and the supplied center.
C7_ChargeTable ==
    (last.op = "Monopole" /\ last.args.charge \in Charges) =>
        /\ last.obj.status = "ok"
        /\ {"center", "radius", "surface"} \subseteq last.obj.attrs
        /\ last.obj.radius = ExpectedRadius(Abs(last.args.charge))
        /\ last.obj.color = ExpectedColor(last.args.charge)
        /\ last.obj.center = last.args.center

C7_Witness ==
    /\ last.op = "Monopole"
    /\ last.args.charge = -4
    /\ last.obj.radius = Q(24, 100)
    /\ last.obj.color = "r"
    /\ last.obj.center = IVec(<<1, -1, 0>>)

----------------------------------------------------------------------------
(* The specification of Arrow calls *)

\* axes, not normalized: along the coordinate axes, in the coordinate planes
ArrowAxes ==
    {IVec(v) : v \in {<<1, 0, 0>>, <<-1, 0, 0>>, <<0, 1, 0>>, <<0, 0, -1>>, <<0, 0, 2>>,
                      <<3, 4, 0>>, <<0, -3, 4>>, <<1, 1, 0>>, <<0, 1, -1>>, <<-1, 0, 1>>}}

ArrowPoints == {IVec(<<0, 0, 0>>), IVec(<<1, 2, 3>>), <<Q(1, 8), Q(-1, 8), Q(1, 8)>>}
ArrowLengths == {Q(6, 10), I(10)}
ArrowRadii == {Q(36, 1000), Q(1, 2)}
ConeLengthRatios == {DefaultConeLengthRatio, Q(1, 4), I(0), I(1)}
ConeRadiusRatios == {DefaultConeCylinderRadiusRatio, I(1)}
Pivots == {"tail", "mid", "tip", "head", "Tip", ""}

NewArrow ==
    \E pos \in ArrowPoints, radius \in ArrowRadii, length \in ArrowLengths,
       axis \in ArrowAxes, clr \in ConeLengthRatios, ccrr \in ConeRadiusRatios,
       pivot \in Pivots :
        /\ last = NoCall
        /\ last' = [op |-> "Arrow",
                    args |-> [pos |-> pos, radius |-> radius, length |-> length,
                              axis |-> axis, cone_length_ratio |-> clr,
                              cone_cylinder_radius_ratio |-> ccrr, pivot |-> pivot],
                    obj |-> Arrow(pos, radius, length, axis, clr, ccrr, pivot)]
        /\ UNCHANGED <<spin_values, table>>

SpecArrow == InitIdle /\ [][NewArrow]_vars

\* C6: an Arrow call with a pivot other than 'tail', 'mid', 'tip' raises
\* ValueError with no cylinder, cone or circle built; with one of the three
\* the call succeeds.
C6_PivotChecked ==
    last.op = "Arrow" =>
        IF last.args.pivot \in {"tail", "mid", "tip"}
        THEN last.obj.status = "ok" /\ last.obj.pivot = last.args.pivot
        ELSE /\ last.obj.status = "ValueError"
             /\ last.obj.attrs \cap {"pivot", "cylinder", "base_cylinder", "cone",
                                     "base_cone", "surface"} = {}
             /\ last.obj.cylinder = <<>>
             /\ last.obj.cone = <<>>

C6_Witness ==
    /\ last.op = "Arrow"
    /\ last.args.pivot = "head"
    /\ last.obj.status = "ValueError"

\* C10: an Arrow built with pivot 'tip' has the tip of its cone at the supplied
\* position, whatever the length, the radius and the two ratios.
C10_TipAtPosition ==
    (last.op = "Arrow" /\ last.args.pivot = "tip") =>
        /\ last.obj.status = "ok"
        /\ last.obj.cone.tip = last.args.pos

C10_Witness ==
    /\ last.op = "Arrow"
    /\ last.args.pivot = "tip"
    /\ last.args.pos = IVec(<<1, 2, 3>>)
    /\ last.args.axis = IVec(<<3, 4, 0>>)
    /\ last.args.cone_length_ratio = Q(1, 4)
    /\ last.obj.cylinder.center # last.args.pos
    /\ last.obj.cone.tip = IVec(<<1, 2, 3>>)

----------------------------------------------------------------------------
(* The specification of Tetrahedra calls *)

\* centers: the small integer points and the up centers of the cell at the origin
TetraCenters == Points \cup {UpCenters(<<0, 0, 0>>)[t] : t \in 1..4}

\* sides: the default 0.25, others, and two that are not positive
TetraSides == {Q(1, 4), I(1), I(3), NSqrt(Q(1, 2)), I(0), I(-1)}

\* the site counts a UnitCell hands to its four tetrahedra, range(1, 17, 4)
TetraCounts == {1, 5, 9, 13}

NewTetrahedra ==
    \E center_up \in TetraCenters, L \in TetraSides, init_count \in TetraCounts :
        /\ last = NoCall
        /\ last' = [op |-> "Tetrahedra",
                    args |-> [center_up |-> center_up, L |-> L,
                              init_count |-> init_count],
                    obj |-> Tetrahedra(center_up, L, init_count)]
        /\ UNCHANGED <<spin_values, table>>

SpecTetra == InitIdle /\ [][NewTetrahedra]_vars

\* C11: a Tetrahedra built from any center and a side L > 0 has its down
\* vertex 0 equal to its up vertex 0, its down vertex n equal to
\* 2 * (up vertex 0) - (up vertex n) for n in 0..3, its 4 up vertices pairwise
\* distinct and its 4 down vertices pairwise distinct.
C11_DownReflectsUp ==
    (last.op = "Tetrahedra" /\ NPos(last.args.L)) =>
        LET up == last.obj.up_vertices
            down == last.obj.down_vertices
        IN  /\ last.obj.status = "ok"
            /\ Len(up) = 4 /\ Len(down) = 4
            /\ down[1] = up[1]
            /\ \A n \in 1..4 : down[n] = VSub(VScale(I(2), up[1]), up[n])
            /\ \A n, m \in 1..4 : n # m => up[n] # up[m]
            /\ \A n, m \in 1..4 : n # m => down[n] # down[m]

C11_Witness ==
    /\ last.op = "Tetrahedra"
    /\ last.args.center_up = IVec(<<1, -1, 0>>)
    /\ last.args.L = Q(1, 4)
    /\ last.obj.up_vertices[2] = <<Q(9, 8), Q(-9, 8), Q(-1, 8)>>
    /\ last.obj.down_vertices[2] = <<Q(9, 8), Q(-5, 8), Q(3, 8)>>
    /\ last.obj.down_vertices[1] = last.obj.up_vertices[1]

----------------------------------------------------------------------------
(* The specification of perpendicular_plane_vectors calls *)

\* the unit vectors offered are the directions of the integer vectors with
\* coordinates in -MaxCoord .. MaxCoord
MaxCoord == 7

\* m is a square or twice a square: its root lies in Q(sqrt 2)
Rootable(m) ==
    LET r == ISqrt(m)
        h == ISqrt(m \div 2)
    IN  r * r = m \/ 2 * h * h = m

\* unit vectors whose norms, and the norms of their cross products with
\* [1, 0, 0], lie in Q(sqrt 2); among them [1, 0, 0] and [-1, 0, 0]
UnitVectors ==
    {Normalize(IVec(v)) :
        v \in {w \in (-MaxCoord..MaxCoord) \X (-MaxCoord..MaxCoord) \X (-MaxCoord..MaxCoord) :
                  /\ w # <<0, 0, 0>>
                  /\ Rootable(w[1] * w[1] + w[2] * w[2] + w[3] * w[3])
                  /\ Rootable(w[2] * w[2] + w[3] * w[3])}}

NewPerpendicular ==
    \E vector \in UnitVectors :
        LET n == perpendicular_plane_vectors(vector)
        IN  /\ last = NoCall
            /\ last' = [op |-> "perpendicular_plane_vectors",
                        args |-> [vector |-> vector],
                        obj |-> [status |-> "ok", n1 |-> n[1], n2 |-> n[2]]]
            /\ UNCHANGED <<spin_values, table>>

SpecLinalg == InitIdle /\ [][NewPerpendicular]_vars

ZeroVec == <<Zero, Zero, Zero>>

\* C12: for every unit vector v, [1, 0, 0] included, the reference vector of
\* perpendicular_plane_vectors(v) is not parallel to v (their cross product is
\* not zero) and the result is a pair of well-defined unit vectors n1, n2
\* with n1.v = 0, n2.v = 0 and n1.n2 = 0.
C12_PerpendicularPair ==
    last.op = "perpendicular_plane_vectors" =>
        LET v == last.args.vector
            n1 == last.obj.n1
            n2 == last.obj.n2
        IN  /\ Cross(v, NotVector(v)) # ZeroVec
            /\ n1 # NaNVec /\ n2 # NaNVec
            /\ Dot(n1, n1) = I(1) /\ Dot(n2, n2) = I(1)
            /\ Dot(n1, v) = Zero /\ Dot(n2, v) = Zero
            /\ Dot(n1, n2) = Zero

----------------------------------------------------------------------------
(* More claims about UnitCell and Spins, checked under Spec *)

IsValidSpins ==
    /\ last.op = "Spins"
    /\ Len(last.args.s1234) = 4
    /\ \A n \in 1..4 : last.args.s1234[n] \in {1, -1}

\* C14: after a Spins call with four values in {+1, -1}, arrow n is blue if
\* spin n is +1 and black if it is -1, for n in 0..3 (so four +1 give four
\* blue arrows and four -1 four black ones).
C14_ColorBySpin ==
    IsValidSpins =>
        /\ last.obj.status = "ok"
        /\ Len(last.obj.arrows) = 4
        /\ \A n \in 1..4 :
              /\ last.args.s1234[n] = 1 => last.obj.arrows[n].surface_color = "blue"
              /\ last.args.s1234[n] = -1 => last.obj.arrows[n].surface_color = "black"
              /\ last.obj.colors[n] = last.obj.arrows[n].surface_color
        /\ last.args.s1234 = <<1, 1, 1, 1>> =>
              \A n \in 1..4 : last.obj.arrows[n].surface_color = "blue"
        /\ last.args.s1234 = <<-1, -1, -1, -1>> =>
              \A n \in 1..4 : last.obj.arrows[n].surface_color = "black"

C14_Witness ==
    /\ IsValidSpins
    /\ last.args.s1234 = <<1, -1, -1, 1>>
    /\ last.obj.colors = <<"blue", "black", "black", "blue">>
    /\ last.obj.arrows[3].surface_color = "black"

\* the crystallographic directions of the four sites, in units of 1/sqrt(3)
CrystalAxes == << <<1, 1, 1>>, <<1, -1, -1>>, <<-1, -1, 1>>, <<-1, 1, -1>> >>

\* C15: after a Spins call with four values in {+1, -1}, the axis of arrow n
\* is spin n times the n-th of the directions [1,1,1], [1,-1,-1], [-1,-1,1],
\* [-1,1,-1] (over sqrt(3)), and arrow n is built at the n-th position given,
\* with radius 0.036, length 0.6 and pivot 'mid'.
C15_AxisBySpin ==
    IsValidSpins =>
        /\ last.obj.status = "ok"
        /\ Len(last.obj.arrows) = 4
        /\ \A n \in 1..4 :
              /\ last.obj.arrows[n].axis =
                    [c \in 1..3 |-> last.args.s1234[n] * CrystalAxes[n][c]]
              /\ last.obj.axes[n] = last.obj.arrows[n].axis
              /\ last.obj.arrows[n].pos = last.args.positions[n]
              /\ last.obj.arrows[n].radius = Q(36, 1000)
              /\ last.obj.arrows[n].length = Q(6, 10)
              /\ last.obj.arrows[n].pivot = "mid"

C15_Witness ==
    /\ IsValidSpins
    /\ last.args.s1234 = <<1, -1, 1, -1>>
    /\ last.obj.arrows[1].axis = <<1, 1, 1>>
    /\ last.obj.arrows[2].axis = <<-1, 1, 1>>
    /\ last.obj.arrows[2].pos = <<Q(1, 8), Q(-1, 8), Q(-1, 8)>>
    /\ last.obj.arrows[4].axis = <<1, -1, 1>>

----------------------------------------------------------------------------
(* The specification of Parallelepiped calls *)

\* side lengths: 1, 2, 3 and sqrt(8)
ParaLengths == {I(1), I(2), I(3), NSqrt(I(8))}

\* the sides argument: three lengths, or the single length that UnitCell passes
ParaSides ==
    {ArgVec(<<a, b, c>>) : a, b, c \in ParaLengths}
    \cup {ArgScalar(NSqrt(I(8))), ArgScalar(NSqrt(Q(1, 2)))}

\* the origin vertex: the origin, [1, 1, 1], and ijk * sqrt(8) for ijk = [1, 0, 1]
ParaOrigins ==
    {IVec(<<0, 0, 0>>), IVec(<<1, 1, 1>>), VScale(NSqrt(I(8)), IVec(<<1, 0, 1>>))}

NewParallelepiped ==
    \E L \in ParaSides, initial_vertex_position \in ParaOrigins :
        /\ last = NoCall
        /\ last' = [op |-> "Parallelepiped",
                    args |-> [L |-> L,
                              initial_vertex_position |-> initial_vertex_position],
                    obj |-> Parallelepiped(L, initial_vertex_position)]
        /\ UNCHANGED <<spin_values, table>>

SpecPara == InitIdle /\ [][NewParallelepiped]_vars

\* the vertex indices of the six faces
FaceTable ==
    << <<2, 0, 1, 3>>, <<4, 6, 7, 5>>, <<6, 2, 3, 7>>,
       <<0, 4, 5, 1>>, <<0, 4, 6, 2>>, <<1, 5, 7, 3>> >>

\* C16: a Parallelepiped built from three side lengths (Lx, Ly, Lz) and an
\* origin has exactly 8 vertices, origin + (a*Lx, b*Ly, c*Lz) at index
\* 4a + 2b + c for a, b, c in {0, 1}; exactly 6 faces, face k being the four
\* vertices at the indices of row k of the face table, in that order; and 12
\* primitives, for each face k its outline followed by its fill, the fill
\* carrying the orientation axis index k // 2.
C16_VerticesAndFaces ==
    (/\ last.op = "Parallelepiped"
     /\ last.args.L.ndim = 1
     /\ Len(last.args.L.v) = 3) =>
        LET o == last.args.initial_vertex_position
            L == last.args.L.v
            V == last.obj.vertices
            F == last.obj.face_vertices
            P == last.obj.faces
        IN  /\ last.obj.status = "ok"
            /\ Len(V) = 8
            /\ \A a, b, c \in {0, 1} :
                  V[4 * a + 2 * b + c + 1] =
                      VAdd(o, <<NMul(I(a), L[1]), NMul(I(b), L[2]), NMul(I(c), L[3])>>)
            /\ Len(F) = 6
            /\ \A k \in 0..5 :
                  /\ Len(F[k + 1]) = 4
                  /\ \A m \in 1..4 : F[k + 1][m] = V[FaceTable[k + 1][m] + 1]
            /\ Len(P) = 12
            /\ \A k \in 0..5 :
                  /\ P[2 * k + 1].role = "outline"
                  /\ P[2 * k + 1].vert = F[k + 1]
                  /\ P[2 * k + 2].role = "fill"
                  /\ P[2 * k + 2].vert = F[k + 1]
                  /\ P[2 * k + 2].surfaceaxis = k \div 2

C16_Witness ==
    /\ last.op = "Parallelepiped"
    /\ last.args.L = ArgVec(IVec(<<1, 2, 3>>))
    /\ last.args.initial_vertex_position = IVec(<<1, 1, 1>>)
    /\ last.obj.vertices[2] = IVec(<<1, 1, 4>>)
    /\ last.obj.vertices[5] = IVec(<<2, 1, 1>>)
    /\ last.obj.vertices[8] = IVec(<<2, 3, 4>>)
    /\ last.obj.face_vertices[1] =
          <<IVec(<<1, 3, 1>>), IVec(<<1, 1, 1>>), IVec(<<1, 1, 4>>), IVec(<<1, 3, 4>>)>>
    /\ last.obj.faces[12].role = "fill"
    /\ last.obj.faces[12].surfaceaxis = 2

----------------------------------------------------------------------------
(* The specification of successive UnitCell calls on one global array.  The *)
(* caller keeps what each call left behind: last.cells lists the objects in *)
(* the order of the calls.                                                  *)

\* the number of UnitCell calls made on one array
MaxCells == 2

\* arrays for L = 1 and L = 2, one of them with a value that is no spin
CellArrays ==
    {Tiled(<<1, -1, 1, -1>>, 16), Coded(128),
     [Tiled(<<1, -1, 1, -1>>, 128) EXCEPT ![6] = 3]}

NoCells == [op |-> "none", args |-> <<>>, obj |-> <<>>, cells |-> <<>>]

InitCells ==
    /\ spin_values \in CellArrays
    /\ table \in NeighborTables(LatticeSize(Len(spin_values)))
    /\ last = NoCells

\* spin_values[a:b] of a numpy array is a view: the cell's spin_values reads
\* the caller's array; the other attributes are the cell's own
AsSeen(cell, array) ==
    [cell EXCEPT !.spin_values =
                     PySlice(array, cell.initial_spin, cell.initial_spin + 16)]

\* a variant of the call that flips the first spin of the cell in place
NextUnitCellFlipping ==
    \E i, j, k \in 0..(LatticeSize(Len(spin_values)) - 1) :
        LET cell == UnitCell(<<i, j, k>>, spin_values, table)
        IN  /\ Len(last.cells) < MaxCells
            /\ last' = [op |-> "UnitCell", args |-> [ijk |-> <<i, j, k>>],
                        obj |-> cell, cells |-> Append(last.cells, cell)]
            /\ spin_values' = [spin_values EXCEPT ![cell.initial_spin + 1] = -@]
            /\ UNCHANGED table

\* cell = UnitCell(ijk, spin_values), once more on the same array
NextUnitCell ==
    \E i, j, k \in 0..(LatticeSize(Len(spin_values)) - 1) :
        LET cell == UnitCell(<<i, j, k>>, spin_values, table)
        IN  /\ Len(last.cells) < MaxCells
            /\ last' = [op |-> "UnitCell", args |-> [ijk |-> <<i, j, k>>],
                        obj |-> cell, cells |-> Append(last.cells, cell)]
            /\ UNCHANGED <<spin_values, table>>

SpecCells == InitCells /\ [][NextUnitCell]_vars

\* C17: a UnitCell call, failed or not, leaves the caller's global array as
\* it was (same length, same value at every index) and leaves every attribute
\* of the cells built before it from the same array as it was.
C17_CallChangesNothing ==
    [][/\ Len(spin_values') = Len(spin_values)
       /\ \A n \in DOMAIN spin_values : spin_values'[n] = spin_values[n]
       /\ \A n \in 1..Len(last.cells) :
             AsSeen(last'.cells[n], spin_values') = AsSeen(last.cells[n], spin_values)]_vars

C17_Witness ==
    /\ spin_values = Coded(128)
    /\ Len(last.cells) = 2
    /\ last.cells[1].ijk = <<1, 0, 0>>
    /\ last.cells[2].ijk = <<0, 1, 0>>
    /\ last.cells[1].spin_values = PySlice(Coded(128), 16, 32)
    /\ last.cells[2].status # "ok"

----------------------------------------------------------------------------
(* A claim about the lattice size, checked under Spec *)

\* the lattice size is computed as L, and the first spin of the cell with it
LatticeSizeFound ==
    /\ LatticeSize(Len(spin_values)) = LatticeOf(Len(spin_values))
    /\ last.obj.initial_spin = FirstSpinOf(last.args.ijk, Len(spin_values))

\* C18: a UnitCell call on an array of 16*L^3 spins computes the lattice size
\* as exactly L, uses that L in the index of the cell's first spin, and opens
\* the neighbor-table file named L<L>.dat.
C18_LatticeSizeUsed ==
    IsCell =>
        /\ LatticeSizeFound
        /\ last.obj.table_file = "L" \o ToString(LatticeOf(Len(spin_values))) \o ".dat"

----------------------------------------------------------------------------
(* More claims about Arrow, checked under SpecArrow *)

\* C19: an Arrow built with pivot 'tail' has the start of its shaft, the
\* center of the cylinder's base and of the first cap circle, at the supplied
\* position, whatever the length, the radius and the cone length ratio.
C19_TailAtPosition ==
    (last.op = "Arrow" /\ last.args.pivot = "tail") =>
        /\ last.obj.status = "ok"
        /\ last.obj.cylinder.base_center = last.args.pos
        /\ last.obj.base_cylinder.center = last.args.pos

C19_Witness ==
    /\ last.op = "Arrow"
    /\ last.args.pivot = "tail"
    /\ last.args.pos = IVec(<<1, 2, 3>>)
    /\ last.args.axis = IVec(<<3, 4, 0>>)
    /\ last.args.length = I(10)
    /\ last.args.cone_length_ratio = Q(1, 4)
    /\ last.obj.cylinder.center = <<Q(13, 4), I(5), I(3)>>
    /\ last.obj.cylinder.base_center = IVec(<<1, 2, 3>>)

\* C20: in every Arrow, whatever the pivot and the cone length ratio r, the
\* shaft is (1 - r) * length long and the head r * length (together the
\* length; 60% and 40% by default), the base of the cone is centered on the
\* top center of the cylinder, its radius is cone_cylinder_radius_ratio times
\* the radius of the shaft (1.8 times by default), and the two cap circles
\* are centered on the base center and on the top center of the cylinder.
C20_ShaftAndHead ==
    (last.op = "Arrow" /\ last.args.pivot \in {"tail", "mid", "tip"}) =>
        LET r == last.args.cone_length_ratio
            k == last.args.cone_cylinder_radius_ratio
            cylinder == last.obj.cylinder
            cone == last.obj.cone
        IN  /\ last.obj.status = "ok"
            /\ cylinder.length = NMul(NSub(I(1), r), last.args.length)
            /\ cone.length = NMul(r, last.args.length)
            /\ NAdd(cylinder.length, cone.length) = last.args.length
            /\ r = DefaultConeLengthRatio =>
                  /\ cylinder.length = NMul(Q(60, 100), last.args.length)
                  /\ cone.length = NMul(Q(40, 100), last.args.length)
            /\ cone.base_center = cylinder.top_center
            /\ cylinder.radius = last.args.radius
            /\ cone.base_radius = NMul(k, last.args.radius)
            /\ k = DefaultConeCylinderRadiusRatio =>
                  cone.base_radius = NMul(Q(18, 10), last.args.radius)
            /\ last.obj.base_cylinder.center = cylinder.base_center
            /\ last.obj.base_cone.center = cylinder.top_center

C20_Witness ==
    /\ last.op = "Arrow"
    /\ last.args.pivot = "mid"
    /\ last.args.pos = IVec(<<1, 2, 3>>)
    /\ last.args.axis = IVec(<<0, 0, 2>>)
    /\ last.args.length = I(10)
    /\ last.args.radius = Q(1, 2)
    /\ last.args.cone_length_ratio = DefaultConeLengthRatio
    /\ last.args.cone_cylinder_radius_ratio = DefaultConeCylinderRadiusRatio
    /\ last.obj.cylinder.length = I(6)
    /\ last.obj.cone.length = I(4)
    /\ last.obj.cone.base_radius = Q(9, 10)
    /\ last.obj.cone.base_center = IVec(<<1, 2, 4>>)
    /\ last.obj.base_cone.center = IVec(<<1, 2, 4>>)
    /\ last.obj.base_cylinder.center = IVec(<<1, 2, -2>>)

----------------------------------------------------------------------------
(* More claims about Tetrahedra, checked under SpecTetra *)

\* C21: the up and the down tetrahedron of a Tetrahedra built from any center
\* and a side L > 0 share exactly one corner: up vertex n equals down vertex m
\* if and only if n = m = 0.
C21_OneSharedCorner ==
    (last.op = "Tetrahedra" /\ NPos(last.args.L)) =>
        \A n, m \in 0..3 :
            (last.obj.up_vertices[n + 1] = last.obj.down_vertices[m + 1])
                <=> (n = 0 /\ m = 0)

C21_Witness ==
    /\ last.op = "Tetrahedra"
    /\ last.args.center_up = UpCenters(<<0, 0, 0>>)[2]
    /\ last.args.L = NSqrt(Q(1, 2))
    /\ last.obj.up_vertices[1] = last.obj.down_vertices[1]
    /\ last.obj.up_vertices[2] # last.obj.down_vertices[2]
    /\ \A n \in 2..4 : \A m \in 1..4 :
          last.obj.up_vertices[n] # last.obj.down_vertices[m]

----------------------------------------------------------------------------
(* Claims about the assembled cell, checked under Spec *)

\* a Tetrahedra call with init_count c labels its sites c, c+1, c+2, c+3
SitesFromCount ==
    last.op = "Tetrahedra" =>
        last.obj.site_numbers =
            [n \in 1..4 |-> last.args.init_count + (n - 1)]

\* C22: a UnitCell call builds four tetrahedra whose sites are labelled
\* 4t+1 .. 4t+4 in vertex order (init_count 1, 5, 9, 13), so that the labels
\* of the cell are 1..16, each once, whatever ijk is, and the site labelled n
\* carries the arrow of the cell's spin n-1 (global index initial_spin + n - 1).
C22_SiteLabels ==
    IsCell =>
        /\ {"tetrahedra", "spins"} \subseteq last.obj.attrs
        /\ Len(last.obj.tetrahedra) = 4
        /\ Len(last.obj.spins) = 4
        /\ \A t \in 0..3 : \A n \in 0..3 :
              /\ last.obj.tetrahedra[t + 1].site_numbers[n + 1] = 4 * t + n + 1
              /\ last.obj.spins[t + 1].s1234[n + 1] = OwnSpin(4 * t + n)
              /\ last.obj.spins[t + 1].arrows[n + 1].pos =
                    last.obj.tetrahedra[t + 1].up_vertices[n + 1]

\* the cells of the lattice of a global array, and the Python indices that
\* the constructor makes the own ones of a cell
CellsOfArray ==
    LET L == LatticeSize(Len(spin_values))
    IN  (0..(L - 1)) \X (0..(L - 1)) \X (0..(L - 1))

SliceOf(ijk) ==
    LET first == InitialSpin(ijk, LatticeSize(Len(spin_values)))
    IN  {m \in first..(first + 15) : m < Len(spin_values)}

\* C23: for a global array of 16*L^3 spins, the index ranges
\* [initial_spin, initial_spin + 16) of the cells (i,j,k), 0 <= i,j,k < L, have
\* 16 entries each, lie within the array, are pairwise disjoint and together
\* cover every index 0 .. 16*L^3 - 1 exactly once; a UnitCell call takes the
\* range of its cell.
C23_SlicesPartition ==
    /\ \A c \in CellsOfArray :
          /\ Cardinality(SliceOf(c)) = 16
          /\ SliceOf(c) \subseteq 0..(Len(spin_values) - 1)
    /\ \A c, d \in CellsOfArray : c # d => SliceOf(c) \cap SliceOf(d) = {}
    /\ \A m \in 0..(Len(spin_values) - 1) :
          Cardinality({c \in CellsOfArray : m \in SliceOf(c)}) = 1
    /\ IsCell =>
          /\ last.args.ijk \in CellsOfArray
          /\ Len(last.obj.spin_values) = 16
          /\ \A n \in 0..15 :
                /\ last.obj.initial_spin + n \in SliceOf(last.args.ijk)
                /\ last.obj.spin_values[n + 1] =
                      spin_values[last.obj.initial_spin + n + 1]

C23_Witness ==
    /\ IsCell
    /\ Len(spin_values) = 128
    /\ last.args.ijk = <<1, 1, 1>>
    /\ last.obj.initial_spin = 112
    /\ SliceOf(<<0, 1, 0>>) = 32..47
    /\ Cardinality(CellsOfArray) = 8

----------------------------------------------------------------------------
(* Claims about the down monopoles of the cells of one array *)

AllSpinsValid == \A n \in DOMAIN spin_values : ValidSpin(spin_values[n])

\* the charges that lines 98-105 of the constructor compute for the cell at ijk
DownChargesAt(ijk) ==
    LET down == DownMonopoles(table, spin_values, DownCenters(UpCenters(ijk)))
    IN  [t \in 1..Len(down.list) |-> down.list[t].charge]

\* the down-monopole step, taken by itself, computes the same four charges
\* for every cell of the lattice
DownStepIgnoresCell ==
    (TableComplete /\ AllSpinsValid) =>
        \A c, d \in CellsOfArray :
            Len(DownChargesAt(c)) = 4 /\ DownChargesAt(c) = DownChargesAt(d)

\* C24: the cells built from one global array (of valid spins) and one
\* neighbor table, at whatever positions ijk, each have four down monopoles,
\* and the charge of the t-th is the same in all of them.
C24_DownChargesSameEverywhere ==
    (TableComplete /\ AllSpinsValid) =>
        \A a, b \in 1..Len(last.cells) :
            /\ "monopoles_down" \in last.cells[a].attrs
            /\ Len(last.cells[a].monopoles_down) = 4
            /\ Len(last.cells[b].monopoles_down) = 4
            /\ \A t \in 1..4 :
                  last.cells[a].monopoles_down[t].charge =
                      last.cells[b].monopoles_down[t].charge

\* the 8 monopoles that lines 85-105 of the constructor compute for the cell
\* of the call: the up ones from the cell's own spins, the down ones from the
\* global array
MonopolesOfCall ==
    LET down == DownMonopoles(table, spin_values, last.obj.down_centers)
    IN  [t \in 1..4 |-> Monopole(UpCharge(last.obj.spin_values, t),
                                 last.obj.up_centers[t])]
        \o down.list

----------------------------------------------------------------------------
(* More claims about Parallelepiped, checked under SpecPara *)

\* a call with three side lengths, all positive
IsBox ==
    /\ last.op = "Parallelepiped"
    /\ last.args.L.ndim = 1
    /\ Len(last.args.L.v) = 3
    /\ \A c \in 1..3 : NPos(last.args.L.v[c])

\* C26: in a Parallelepiped with positive sides, the four vertices of face k
\* (k in 0..5) have the same coordinate along axis k // 2, the orientation
\* axis index of the face's fill, and faces 2m and 2m+1 are the two opposite
\* faces perpendicular to axis m: one lies at the origin's coordinate, the
\* other at the origin's plus L_m.
C26_FacesAcrossAxes ==
    IsBox =>
        LET o == last.args.initial_vertex_position
            L == last.args.L.v
            F == last.obj.face_vertices
            P == last.obj.faces
            Level(k, axis) == {F[k + 1][n][axis + 1] : n \in 1..4}
        IN  /\ last.obj.status = "ok"
            /\ \A k \in 0..5 :
                  /\ P[2 * k + 2].surfaceaxis = k \div 2
                  /\ Cardinality(Level(k, P[2 * k + 2].surfaceaxis)) = 1
            /\ \A m \in 0..2 :
                  Level(2 * m, m) \cup Level(2 * m + 1, m) =
                      {o[m + 1], NAdd(o[m + 1], L[m + 1])}

C26_Witness ==
    /\ IsBox
    /\ last.args.L = ArgVec(IVec(<<1, 2, 3>>))
    /\ last.args.initial_vertex_position = IVec(<<1, 1, 1>>)
    /\ {last.obj.face_vertices[3][n][2] : n \in 1..4} = {I(3)}
    /\ {last.obj.face_vertices[4][n][2] : n \in 1..4} = {I(1)}
    /\ last.obj.faces[6].surfaceaxis = 1

\* the number of coordinates in which two points differ
DiffCount(u, v) == Cardinality({c \in 1..3 : u[c] # v[c]})

\* the 12 edges of the box spanned from the origin by the three sides
BoxEdges ==
    LET o == last.args.initial_vertex_position
        L == last.args.L.v
        Corners == {VAdd(o, <<NMul(I(a), L[1]), NMul(I(b), L[2]), NMul(I(c), L[3])>>) :
                       a \in {0, 1}, b \in {0, 1}, c \in {0, 1}}
    IN  {e \in {{u, v} : u, v \in Corners} : \E u, v \in e : DiffCount(u, v) = 1}

\* the segments that the outline of face k draws: between the consecutive
\* vertices of its sequence of four
OutlineSegments(k) ==
    LET vert == last.obj.faces[2 * k + 1].vert
    IN  {{vert[n], vert[n + 1]} : n \in 1..(Len(vert) - 1)}

\* C27: in a Parallelepiped (of positive sides), every segment drawn by a
\* face outline joins two corners that differ in exactly one coordinate: it
\* is an edge of the box, never a diagonal; and the segments of the 6
\* outlines together cover all 12 edges of the box.
C27_OutlinesAreEdges ==
    IsBox =>
        /\ last.obj.status = "ok"
        /\ Cardinality(BoxEdges) = 12
        /\ \A k \in 0..5 :
              /\ last.obj.faces[2 * k + 1].role = "outline"
              /\ \A e \in OutlineSegments(k) :
                    /\ \A u, v \in e : u # v => DiffCount(u, v) = 1
                    /\ e \in BoxEdges
        /\ UNION {OutlineSegments(k) : k \in 0..5} = BoxEdges

C27_Witness ==
    /\ IsBox
    /\ last.args.L = ArgVec(<<I(2), NSqrt(I(8)), I(1)>>)
    /\ last.args.initial_vertex_position = IVec(<<0, 0, 0>>)
    /\ {IVec(<<0, 0, 0>>), IVec(<<0, 0, 1>>)} \in OutlineSegments(0)
    /\ {IVec(<<0, 0, 0>>), IVec(<<2, 0, 0>>)} \in OutlineSegments(3)
    /\ Cardinality(OutlineSegments(5)) = 3

----------------------------------------------------------------------------
(* One more claim about Arrow, checked under SpecArrow *)

\* C28: an Arrow built with pivot 'mid' has the supplied position at the
\* middle of the whole arrow: the base center of the cylinder is
\* pos - (length/2) * axis and the tip of the cone pos + (length/2) * axis,
\* axis being the unit axis, whatever the cone length ratio.
C28_MidAtPosition ==
    (last.op = "Arrow" /\ last.args.pivot = "mid") =>
        LET half == VScale(NDiv(last.args.length, I(2)), Normalize(last.args.axis))
        IN  /\ last.obj.status = "ok"
            /\ last.obj.cylinder.base_center = VSub(last.args.pos, half)
            /\ last.obj.cone.tip = VAdd(last.args.pos, half)

C28_Witness ==
    /\ last.op = "Arrow"
    /\ last.args.pivot = "mid"
    /\ last.args.pos = IVec(<<1, 2, 3>>)
    /\ last.args.axis = IVec(<<0, -3, 4>>)
    /\ last.args.length = I(10)
    /\ last.args.cone_length_ratio = Q(1, 4)
    /\ last.obj.cylinder.base_center = IVec(<<1, 5, -1>>)
    /\ last.obj.cone.tip = IVec(<<1, -1, 7>>)
    /\ last.obj.cylinder.center # last.args.pos

----------------------------------------------------------------------------
(* The dashboard.  The browser holds the properties of the components; an   *)
(* event changes one of them and the callbacks that have it as an Input are *)
(* called with the current values.  A callback that raises updates nothing, *)
(* and the callbacks after it are called only if its Output changed.        *)
(* spin_values is the data of store_selected_configuration_data, table the  *)
(* neighbor file of its lattice size, last.obj the other properties.        *)

\* the number of clicks of the generate button, and of camera moves
MaxClicks == 2
MaxRelayouts == 2

\* list * k
RECURSIVE ListTimes(_, _)
ListTimes(list, k) == IF k = 0 THEN <<>> ELSE list \o ListTimes(list, k - 1)

ConfigOptions == {"+z", "ms", "md"}

\* the else branch of configuration_data: the series of the selected preset
PresetValues(config_selection) ==
    IF config_selection = "+z" THEN ListTimes(<<1, -1, 1, -1>>, 4)
    ELSE IF config_selection = "ms" THEN ListTimes(<<1, -1, -1, -1>>, 4)
    ELSE ListTimes(<<-1, -1, -1, -1>>, 4)

\* the files a user uploads: a column of 16 or 128 values
UploadContents == {Coded(16), Coded(128), [Tiled(<<1, -1, 1, -1>>, 128) EXCEPT ![6] = 3]}

\* configuration_data(config_selection, contents), called for input_id
configuration_data(input_id, config_selection, contents) ==
    IF input_id = "upload_data" THEN contents ELSE PresetValues(config_selection)

\* the neighbor files of the repository, one per lattice size
DataFiles(L) == {t \in NeighborTables(L) : t.status = "ok" /\ DOMAIN t.rows = DownKeys}

\* dcc.Graph(id="graph") is laid out without a figure
NoFigure == [set |-> FALSE, spin_values |-> <<>>, tetra_count |-> 0, camera |-> 0]

\* the figure of a cell that was built: its first tetra_count tetrahedra, seen
\* from the camera of relayoutData
FigureOfCell(cell, tetra_count, relayoutData) ==
    IF cell.status # "ok" THEN [status |-> cell.status, figure |-> NoFigure]
    ELSE [status |-> "ok",
          figure |-> [set |-> TRUE, spin_values |-> cell.spin_values,
                      tetra_count |-> tetra_count, camera |-> relayoutData]]

\* cell_construction: the figure of the cell at [0, 0, 0]
cell_construction(configuration, tetra_count, relayoutData, tbl) ==
    FigureOfCell(UnitCell(<<0, 0, 0>>, configuration, tbl), tetra_count, relayoutData)

\* to_image(figure, format="pdf"): the image of a figure; no figure is a ValueError
to_image(figure) ==
    IF figure.set THEN [status |-> "ok", image |-> figure]
    ELSE [status |-> "ValueError", image |-> NoFigure]

\* the "Download Plot" button of the layout: outlined and disabled
DisabledButton == [tag |-> "Button", disabled |-> TRUE, href |-> NoFigure]

\* generate_plot(n_clicks, figure, relayoutData) with ctx.triggered[0] being
\* a property of input_id; shown is what download_place holds (not read)
generate_plot(input_id, figure, shown) ==
    IF input_id = "generate_button"
    THEN LET img == to_image(figure)
         IN  IF img.status # "ok"
             THEN [status |-> img.status, children |-> shown, n_clicks_timestamp |-> 0]
             ELSE [status |-> "ok",
                   children |-> [tag |-> "A", disabled |-> FALSE, href |-> img.image],
                   n_clicks_timestamp |-> 0]
    ELSE [status |-> "ok", children |-> DisabledButton, n_clicks_timestamp |-> 0]

\* the properties after the callback answered: its Outputs, unless it raised
Answered(props, out) ==
    IF out.status # "ok" THEN [props EXCEPT !.returned = out.status]
    ELSE [props EXCEPT !.returned = "ok",
                       !.download_place = out.children,
                       !.n_clicks_timestamp = out.n_clicks_timestamp]

\* the page as laid out, the preset "+z" in the store; n_clicks_timestamp is
\* the button's default, or 0 if generate_plot was called when the page loaded
InitDash ==
    /\ spin_values = PresetValues("+z")
    /\ table \in DataFiles(1)
    /\ \E ts \in {-1, 0} :
          last = [op |-> "layout", args |-> [input_id |-> ""],
                  obj |-> [config_selection |-> "+z", tetra_slider |-> 4,
                           figure |-> NoFigure, relayoutData |-> 0,
                           n_clicks |-> 0, n_clicks_timestamp |-> ts,
                           download_place |-> DisabledButton, returned |-> "ok"]]

\* the answer of cell_construction reached the page: generate_plot is called
\* after it if the figure changed
AfterFigure(props, made) ==
    IF made.status # "ok" \/ made.figure = props.figure
    THEN [op |-> "cell_construction", args |-> [input_id |-> "store"],
          obj |-> [props EXCEPT !.returned = made.status]]
    ELSE [op |-> "generate_plot", args |-> [input_id |-> "graph"],
          obj |-> Answered([props EXCEPT !.figure = made.figure],
                           generate_plot("graph", made.figure, props.download_place))]

\* the store or a control of the figure changed: cell_construction is called
FigureCallbacks(props, configuration, tbl) ==
    AfterFigure(props, cell_construction(configuration, props.tetra_slider,
                                         props.relayoutData, tbl))

\* the user selects a preset in the dropdown
SelectConfiguration ==
    \E c \in ConfigOptions \ {last.obj.config_selection} :
        LET data == configuration_data("config_selection_dropdown", c, <<>>)
        IN  /\ spin_values' = data
            /\ table' \in DataFiles(LatticeSize(Len(data)))
            /\ last' = FigureCallbacks([last.obj EXCEPT !.config_selection = c],
                                       data, table')

\* the user uploads a configuration file
UploadConfiguration ==
    \E contents \in UploadContents \ {spin_values} :
        LET data == configuration_data("upload_data", last.obj.config_selection, contents)
        IN  /\ spin_values' = data
            /\ table' \in DataFiles(LatticeSize(Len(data)))
            /\ last' = FigureCallbacks(last.obj, data, table')

\* the user moves the slider of the number of tetrahedra
SlideTetraCount ==
    \E n \in (1..4) \ {last.obj.tetra_slider} :
        /\ last' = FigureCallbacks([last.obj EXCEPT !.tetra_slider = n],
                                   spin_values, table)
        /\ UNCHANGED <<spin_values, table>>

\* the user clicks "Generate pdf": the button counts the click and stamps it
\* with its time, a positive number, then generate_plot is called
ClickGenerate ==
    /\ last.obj.n_clicks < MaxClicks
    /\ LET clicked == [last.obj EXCEPT !.n_clicks = @ + 1,
                                       !.n_clicks_timestamp = last.obj.n_clicks + 1]
       IN  last' = [op |-> "generate_plot", args |-> [input_id |-> "generate_button"],
                    obj |-> Answered(clicked,
                                     generate_plot("generate_button", clicked.figure,
                                                   clicked.download_place))]
    /\ UNCHANGED <<spin_values, table>>

\* the user moves the camera: graph.relayoutData changes, generate_plot is called
Relayout ==
    /\ last.obj.relayoutData < MaxRelayouts
    /\ LET moved == [last.obj EXCEPT !.relayoutData = @ + 1]
       IN  last' = [op |-> "generate_plot", args |-> [input_id |-> "graph"],
                    obj |-> Answered(moved,
                                     generate_plot("graph", moved.figure,
                                                   moved.download_place))]
    /\ UNCHANGED <<spin_values, table>>

NextDash ==
    \/ SelectConfiguration
    \/ UploadConfiguration
    \/ SlideTetraCount
    \/ ClickGenerate
    \/ Relayout

SpecDash == InitDash /\ [][NextDash]_vars

\* what download_place offers is a link
IsLink(children) == children.tag = "A" /\ ~children.disabled

\* C29: over any sequence of generate clicks, figure updates and relayout
\* events, (1) download_place becomes or stays a link to a PDF only by a
\* generate_plot call for the generate button, (2) a call for the figure or for
\* relayoutData leaves the disabled "Download Plot" button, (3) a link offered
\* is the PDF of the figure shown, and (4) every generate_plot call leaves
\* n_clicks_timestamp at 0.
C29_DownloadFollowsFigure ==
    [][/\ IsLink(last'.obj.download_place)
            => last'.op = "generate_plot" /\ last'.args.input_id = "generate_button"
       /\ last'.op = "generate_plot" /\ last'.args.input_id = "graph"
            => last'.obj.download_place = DisabledButton
       /\ IsLink(last'.obj.download_place)
            => last'.obj.download_place.href = last'.obj.figure
       /\ last'.op = "generate_plot" => last'.obj.n_clicks_timestamp = 0]_vars

\* the parts (1) to (3) of C29: no link without a click, none that is stale
DownloadNeverStale ==
    [][/\ IsLink(last'.obj.download_place)
            => /\ last'.op = "generate_plot"
               /\ last'.args.input_id = "generate_button"
               /\ last'.obj.download_place.href = last'.obj.figure
       /\ last'.op = "generate_plot" /\ last'.args.input_id = "graph"
            => last'.obj.download_place = DisabledButton]_vars

\* a click of the generate button is answered by an error: no link, and the
\* time of the click stays in n_clicks_timestamp
ClickFailed ==
    /\ last.op = "generate_plot"
    /\ last.args.input_id = "generate_button"
    /\ last.obj.returned = "ValueError"
    /\ last.obj.n_clicks_timestamp > 0
    /\ last.obj.download_place = DisabledButton

\* cell = UnitCell([0, 0, 0], s_spin_values.array) of cell_construction
DashCell == UnitCell(<<0, 0, 0>>, spin_values, table)

\* the store holds the preset selected in the dropdown
PresetStored(c) == last.obj.config_selection = c /\ spin_values = PresetValues(c)

\* the up charge and the radius expected of each preset
PresetCharge(c) == IF c = "+z" THEN 0 ELSE IF c = "ms" THEN 2 ELSE 4
PresetRadius(c) == IF c = "+z" THEN I(0) ELSE IF c = "ms" THEN Q(16, 100) ELSE Q(24, 100)

\* C30: each of the presets "+z", "ms", "md" is an array of 16 values +1 / -1
\* (L = 1) that passes the validation of Spins, and the cell at [0, 0, 0] built
\* from it has four up monopoles of one charge: 0 for "+z", +2 with radius 0.16
\* for "ms", +4 with radius 0.24 for "md".
C30_PresetCharges ==
    \A c \in ConfigOptions :
        PresetStored(c) =>
            /\ Len(spin_values) = 16
            /\ \A n \in 1..16 : spin_values[n] \in {1, -1}
            /\ LatticeSize(Len(spin_values)) = 1
            /\ {"spins", "monopoles_up"} \subseteq DashCell.attrs
            /\ \A t \in 1..4 :
                  /\ DashCell.spins[t].status = "ok"
                  /\ DashCell.monopoles_up[t].charge = PresetCharge(c)
                  /\ DashCell.monopoles_up[t].radius = PresetRadius(c)

\* the steps of C30 taken by themselves: the preset's values, the validation
\* of each four of them, and the monopole of minus their sum
PresetSteps ==
    \A c \in ConfigOptions :
        PresetStored(c) =>
            /\ Len(spin_values) = 16
            /\ \A n \in 1..16 : spin_values[n] \in {1, -1}
            /\ LatticeSize(Len(spin_values)) = 1
            /\ DashCell.spin_values = spin_values
            /\ \A t \in 1..4 :
                  LET s1234 == PySlice(DashCell.spin_values, 4 * (t - 1), 4 * t)
                      up == Tetrahedra(DashCell.up_centers[t], Q(1, 4), 1 + 4 * (t - 1))
                      m == Monopole(UpCharge(DashCell.spin_values, t),
                                    DashCell.up_centers[t])
                  IN  /\ Spins(up.up_vertices, s1234).status = "ok"
                      /\ m.status = "ok"
                      /\ m.charge = PresetCharge(c)
                      /\ m.radius = PresetRadius(c)

\* the preset "ms" is in the store and its cell was not built
PresetCellFailed ==
    /\ PresetStored("ms")
    /\ last.op = "cell_construction"
    /\ last.obj.returned = "IndexError"
    /\ DashCell.status = "IndexError"
    /\ "monopoles_up" \notin DashCell.attrs

====
